---- MODULE Spec2Model ----
(***************************************************************************)
(* IMAPAppleReceiptsToOFX: one run of main().  Every fetched message is    *)
(* handed to process_email, the receipts it returns are collected, the     *)
(* most common recipient becomes the account id, and generate_ofx_output   *)
(* allocates the tax over the items of each receipt and writes the file.   *)
(*                                                                         *)
(* Money amounts are integers counted in thousandths of a dollar, so that  *)
(* a price printed with three decimals ("$0.995") is representable and     *)
(* Money.round(2) is a real operation: it rounds to a multiple of ten.     *)
(***************************************************************************)
EXTENDS Integers, Sequences, FiniteSets, TLC

VARIABLES
    email_ids,                \* the messages fetch_emails returned, in order
    idx,                      \* position of main's loop over email_ids
    all_receipt_data,         \* main: receipts returned by process_email
    recipient_email_counter,  \* main: Counter, as <<address, count>> in insertion order
    formats_logged,           \* per processed message: the layout branches entered
    pc,                       \* "loop" | "ofx" | "done"
    account_id,               \* argument of generate_ofx_output
    k,                        \* position of generate_ofx_output's loop over receipts
    transactions,             \* generate_ofx_output: transactions so far
    allocations,              \* per receipt handled: the locals of its loop iteration
    total_receipts,
    total_items,
    output_file               \* every write of the output file, in order

vars == <<email_ids, idx, all_receipt_data, recipient_email_counter, formats_logged,
          pc, account_id, k, transactions, allocations, total_receipts, total_items,
          output_file>>

\* Bounds of the model.
MaxDocs == 3
MaxItems == 2
MaxTally == 5

\* ------------------------------------------------------------------ helpers

Abs(x) == IF x < 0 THEN -x ELSE x

Last(s) == s[Len(s)]

RECURSIVE SumSeq(_)
SumSeq(s) == IF s = <<>> THEN 0 ELSE s[1] + SumSeq(Tail(s))

RECURSIVE GCD(_, _)
GCD(a, b) == IF b = 0 THEN a ELSE GCD(b, a % b)

RECURSIVE StripFactor(_, _)
StripFactor(n, p) == IF n > 0 /\ n % p = 0 THEN StripFactor(n \div p, p) ELSE n

\* Money.round(1): the same rounding, to tenths of a dollar.
Round1(x) ==
    LET q == x \div 100
        r == x % 100
    IN  IF r < 50 THEN 100 * q
        ELSE IF r > 50 THEN 100 * (q + 1)
        ELSE IF q % 2 = 0 THEN 100 * q ELSE 100 * (q + 1)

\* Money.round(2): Decimal.quantize to cents under the default context,
\* ROUND_HALF_EVEN.  x is exact (thousandths).
Round2(x) ==
    LET q == x \div 10
        r == x % 10
    IN  IF r < 5 THEN 10 * q
        ELSE IF r > 5 THEN 10 * (q + 1)
        ELSE IF q % 2 = 0 THEN 10 * q ELSE 10 * (q + 1)

\* tax / total is a Decimal quotient, exact only when the reduced denominator
\* has no prime factor other than 2 and 5 (the amounts are far below the
\* context's 28 digits); otherwise it is rounded at the 28th digit.
ExactQuotient(tax, total) ==
    LET d == Abs(total) \div GCD(Abs(total), Abs(tax))
    IN  StripFactor(StripFactor(d, 2), 5) = 1

\* (item_price * tax_percentage).round(2), tax_percentage = tax / total.
\* Away from a half-cent boundary the 28-digit error cannot change the result.
\* On a boundary an exact quotient rounds half-even; an inexact quotient leaves
\* the product a hair to one side or, after the product's own rounding, on the
\* boundary again, so both neighbouring cents are possible results.
ItemTaxChoices(price, tax, total) ==
    LET n == IF total < 0 THEN -(price * tax) ELSE price * tax
        d == 10 * Abs(total)
        q == n \div d
        r == n % d
    IN  IF 2 * r < d THEN {10 * q}
        ELSE IF 2 * r > d THEN {10 * (q + 1)}
        ELSE IF ExactQuotient(tax, total)
             THEN {IF q % 2 = 0 THEN 10 * q ELSE 10 * (q + 1)}
             ELSE {10 * q, 10 * (q + 1)}

\* ------------------------------------------------------------------ process_email
(***************************************************************************)
(* A message is what process_email reads of it:                            *)
(*   fetch    mail.fetch answered 'OK'                                     *)
(*   date     0: no Date header; negative: neither strptime format         *)
(*            matches; positive: the parsed time                           *)
(*   to       <<>>: no To header; <<a>>: parseaddr yields address a        *)
(*   html     a text/html part with content exists                         *)
(*   legacy   the div.aapl-desktop-div subtree                             *)
(*   current  the div#email_container subtree                              *)
(* An optional value is a sequence of length 0 or 1.                       *)
(***************************************************************************)

\* title.startswith("Money added to"), over the titles of the model.
StartsWithMoneyAddedTo(title) == title \in {"Money added to Apple Account"}

\* receipt_items[title] = details on an OrderedDict: a new key is appended,
\* an existing key keeps its position and gets the new value.
OrderedDictSet(items, title, details) ==
    IF \E i \in 1..Len(items) : items[i].title = title
    THEN [i \in 1..Len(items) |->
             IF items[i].title = title THEN details ELSE items[i]]
    ELSE Append(items, details)

\* The locals of process_email set at lines 98-103.
EmptyFields ==
    [raised |-> FALSE, order_id |-> "", apple_id |-> "", items |-> <<>>,
     subtotal |-> 0, tax |-> 0, total |-> 0]

Raised == [EmptyFields EXCEPT !.raised = TRUE]

\* extract_id: '' when the label is not found; otherwise the last
\* whitespace-delimited token of the cell's last text node.  A token cannot
\* contain whitespace, so the whitespace branch never rejects.  A cell whose
\* last text node is blank makes split()[-1] raise IndexError, which the
\* function does not catch.
ExtractIdRaises(cell) == cell.label /\ cell.tokens = <<>>

ExtractId(cell) == IF cell.label THEN Last(cell.tokens) ELSE ""

LegacyTitle(title) ==
    IF title = "Premier (Automatic Renewal)" THEN "Apple One Premier" ELSE title

\* Sign applied to a printed price (lines 163-164 and 244-245).
SignedPrice(title, price) == IF StartsWithMoneyAddedTo(title) THEN -price ELSE price

\* One pass of the loop over a.item-links.  item_details['title'] raises
\* KeyError when the title span is missing or empty.
RECURSIVE LegacyItems(_, _)
LegacyItems(items, rows) ==
    IF rows = <<>> THEN items
    ELSE LET row == rows[1]
             title == LegacyTitle(row.title)
         IN  LegacyItems(
                 OrderedDictSet(items, title,
                     [title |-> title, duration |-> row.duration,
                      renewal |-> row.renewal,
                      price |-> SignedPrice(title, row.price)]),
                 Tail(rows))

LegacyItemsRaise(rows) == \E i \in 1..Len(rows) : rows[i].title = ""

\* extract_amount_from_div: Money(0) when no cell carries the label.
ExtractAmountFromDiv(cell) == IF cell = <<>> THEN 0 ELSE cell[1]

\* The branch at line 110.
ExtractLegacy(f, L) ==
    IF ExtractIdRaises(L.apple_id) \/ ExtractIdRaises(L.order_id)
       \/ LegacyItemsRaise(L.rows)
    THEN Raised
    ELSE [raised |-> FALSE,
          apple_id |-> ExtractId(L.apple_id),
          order_id |-> ExtractId(L.order_id),
          items |-> LegacyItems(f.items, L.rows),
          subtotal |-> ExtractAmountFromDiv(L.subtotal),
          tax |-> ExtractAmountFromDiv(L.tax),
          total |-> ExtractAmountFromDiv(L.total)]

\* extract_info: when no text starts with the label, label_tag is None, the
\* assignment of p_tag is skipped and "if p_tag" raises UnboundLocalError,
\* which "except (ValueError, AttributeError)" does not catch.
ExtractInfoRaises(field) == field = <<>>

\* Otherwise the text of the paragraph after the label's, '' when empty.
ExtractInfo(field) == field[1]

CurrentTitle(title, duration) ==
    LET t == IF title = "Premier" THEN "Apple One Premier" ELSE title
    IN  IF t = "Apple TV" THEN duration ELSE t

\* One pass of the loop over the rows of the items table.
RECURSIVE CurrentItems(_, _)
CurrentItems(items, rows) ==
    IF rows = <<>> THEN items
    ELSE LET row == rows[1]
             title == CurrentTitle(row.title, row.duration)
         IN  CurrentItems(
                 IF row.cells >= 3 /\ row.paragraphs >= 3
                 THEN OrderedDictSet(items, title,
                          [title |-> title, duration |-> row.duration,
                           renewal |-> row.renewal,
                           price |-> SignedPrice(title, row.price)])
                 ELSE items,
                 Tail(rows))

\* Money(extract_info(payment_div, label).replace('$', ''), USD): raises when
\* the label is missing (extract_info) and when the value is empty (Decimal).
PaymentAmountRaises(field) == field = <<>>

\* The branch at line 187.  It starts from whatever the locals hold.
ExtractCurrent(f, C) ==
    IF ExtractInfoRaises(C.order_id) \/ ExtractInfoRaises(C.apple_id)
       \/ (C.payment /\ (PaymentAmountRaises(C.subtotal) \/ PaymentAmountRaises(C.tax)))
    THEN Raised
    ELSE [raised |-> FALSE,
          order_id |-> ExtractInfo(C.order_id),
          apple_id |-> ExtractInfo(C.apple_id),
          items |-> IF C.table THEN CurrentItems(f.items, C.rows) ELSE f.items,
          subtotal |-> IF C.payment THEN C.subtotal[1] ELSE f.subtotal,
          tax |-> IF C.payment THEN C.tax[1] ELSE f.tax,
          total |-> IF C.payment /\ C.total # <<>> THEN C.total[1] ELSE f.total]

\* What lines 108-274 log about the layout: "if desktop_div:" and, on its own,
\* "if email_container_div: ... else:", so the else belongs to the second test.
FormatLog(d) ==
    (IF d.legacy.present THEN {"Processing pre-march 2024 format email"} ELSE {})
        \cup (IF d.current.present THEN {"Processing march 2024+ format email"}
                                   ELSE {"No recognized email format found"})

\* Lines 97-277 for a message with HTML content.
ExtractFields(d) ==
    LET f1 == IF d.legacy.present THEN ExtractLegacy(EmptyFields, d.legacy)
              ELSE EmptyFields
    IN  IF f1.raised THEN Raised
        ELSE IF d.current.present THEN ExtractCurrent(f1, d.current)
        ELSE f1

RECURSIVE SumPrices(_)
SumPrices(items) ==
    IF items = <<>> THEN 0 ELSE items[1].price + SumPrices(Tail(items))

\* Lines 288-319: the receipt returned for extracted fields, or <<>> for None.
\* With no items the sum is the int 0, whose comparison with Money either
\* raises or is false; the truth test of receipt_items then fails: None on
\* both paths.
Validate(f, d) ==
    LET calculated_subtotal == SumPrices(f.items)
        subtotal == IF f.tax = 0 /\ f.subtotal = 0 THEN calculated_subtotal
                    ELSE f.subtotal
        total == IF calculated_subtotal < 0 THEN -f.total ELSE f.total
    IN  IF f.order_id # "" /\ f.apple_id # "" /\ f.items # <<>> /\ total # 0
           /\ d.to[1] # ""
        THEN << [receipt_order_id |-> f.order_id,
                 receipt_apple_id |-> f.apple_id,
                 receipt_items |-> f.items,
                 subtotal |-> subtotal,
                 receipt_tax |-> f.tax,
                 receipt_total |-> total,
                 date |-> d.date,
                 recipient_email |-> d.to[1]] >>
        ELSE <<>>

\* process_email: <<receipt>>, or <<>> for None.  A message without HTML
\* content reaches "if receipt_items:" with the name unbound; that and every
\* other exception ends in "except Exception: return None".
ProcessEmail(d) ==
    IF ~d.fetch THEN <<>>
    ELSE IF d.date <= 0 THEN <<>>
    ELSE IF d.to = <<>> THEN <<>>
    ELSE IF ~d.html THEN <<>>
    ELSE LET f == ExtractFields(d)
         IN  IF f.raised THEN <<>> ELSE Validate(f, d)

\* ------------------------------------------------------------------ messages of the model

AppRow == [title |-> "App", duration |-> "", renewal |-> "", price |-> 5000]

MusicRow ==
    [title |-> "Music", duration |-> "1 Month", renewal |-> "Renews monthly",
     price |-> 3000]

TopUpRow ==
    [title |-> "Money added to Apple Account", duration |-> "", renewal |-> "",
     price |-> 1000]

BookRow == [title |-> "Book", duration |-> "", renewal |-> "", price |-> 995]

ItemRows == {AppRow, MusicRow, TopUpRow, BookRow}

\* A row of the current layout's items table.
TableRow(row, cells, paragraphs) ==
    [cells |-> cells, paragraphs |-> paragraphs, title |-> row.title,
     duration |-> row.duration, renewal |-> row.renewal, price |-> row.price]

NoLegacy ==
    [present |-> FALSE,
     apple_id |-> [label |-> FALSE, tokens |-> <<>>],
     order_id |-> [label |-> FALSE, tokens |-> <<>>],
     rows |-> <<>>, subtotal |-> <<>>, tax |-> <<>>, total |-> <<>>]

NoCurrent ==
    [present |-> FALSE, order_id |-> <<>>, apple_id |-> <<>>, table |-> FALSE,
     rows |-> <<>>, payment |-> FALSE, subtotal |-> <<>>, tax |-> <<>>,
     total |-> <<>>]

LegacyPart(apple, order, rows, subtotal, tax, total) ==
    [present |-> TRUE,
     apple_id |-> [label |-> TRUE, tokens |-> <<apple>>],
     order_id |-> [label |-> TRUE, tokens |-> <<order>>],
     rows |-> rows, subtotal |-> subtotal, tax |-> tax, total |-> total]

CurrentPart(apple, order, rows, subtotal, tax, total) ==
    [present |-> TRUE, order_id |-> <<order>>, apple_id |-> <<apple>>,
     table |-> TRUE, rows |-> rows, payment |-> TRUE, subtotal |-> subtotal,
     tax |-> tax, total |-> total]

Message(to, date, legacy, current) ==
    [fetch |-> TRUE, date |-> date, to |-> <<to>>, html |-> TRUE,
     legacy |-> legacy, current |-> current]

RECURSIVE PrintedSum(_)
PrintedSum(rows) == IF rows = <<>> THEN 0 ELSE rows[1].price + PrintedSum(Tail(rows))

RECURSIVE ChargedSum(_)
ChargedSum(rows) ==
    IF rows = <<>> THEN 0
    ELSE SignedPrice(rows[1].title, rows[1].price) + ChargedSum(Tail(rows))

\* The ways a total is printed for rows and a tax: the sum of the printed
\* prices and the tax, that sum in whole cents, or the size of the signed sum
\* and the tax.
PrintedTotals(rows, tax) ==
    {PrintedSum(rows) + tax, Round2(PrintedSum(rows) + tax), Abs(ChargedSum(rows)) + tax}

AllocationMessage(rows, subtotal, tax, total) ==
    Message("a", 1, LegacyPart("family", "ML7YCXCXCX", rows, subtotal, tax, <<total>>),
            NoCurrent)

\* Legacy receipts over every sequence of up to MaxItems rows, without
\* subtotal and tax lines or with both printed.
AllocationPool ==
    UNION {{AllocationMessage(rows, <<>>, <<>>, total) : total \in PrintedTotals(rows, 0)}
               \cup {AllocationMessage(rows, <<PrintedSum(rows)>>, <<560>>, total) :
                        total \in PrintedTotals(rows, 560)} :
           rows \in UNION {[1..n -> ItemRows] : n \in 1..MaxItems}}

LegacyZeroTax == Message("a", 1, LegacyPart("a", "L1", <<AppRow>>, <<>>, <<>>, <<5000>>), NoCurrent)

LegacyTaxed ==
    Message("b", 2,
            LegacyPart("family", "L2", <<MusicRow, AppRow>>, <<8000>>, <<560>>, <<8560>>),
            NoCurrent)

CurrentTaxed ==
    Message("a", 3, NoLegacy,
            CurrentPart("a", "C1",
                        <<TableRow(AppRow, 1, 0), TableRow(MusicRow, 3, 3)>>,
                        <<3000>>, <<210>>, <<3210>>))

CurrentZeroTax ==
    Message("a", 1, NoLegacy,
            CurrentPart("a", "C2", <<TableRow(AppRow, 3, 3)>>, <<>>, <<>>, <<5000>>))

CurrentRenamed ==
    Message("c", 2, NoLegacy,
            CurrentPart("family", "C3",
                        <<TableRow([title |-> "Premier", duration |-> "1 Month",
                                    renewal |-> "Renews monthly", price |-> 3000], 3, 3),
                          TableRow([title |-> "Apple TV", duration |-> "Apple TV+ (Monthly)",
                                    renewal |-> "Renews monthly", price |-> 1000], 3, 3)>>,
                        <<4000>>, <<0>>, <<4000>>))

BothMarkers ==
    Message("a", 1, LegacyZeroTax.legacy, CurrentTaxed.current)

\* A complete legacy part, and a current part without Subtotal and Tax lines.
BothMarkersZeroTax ==
    Message("a", 1, LegacyZeroTax.legacy, CurrentZeroTax.current)

NeitherMarker == Message("a", 1, NoLegacy, NoCurrent)

LegacyTopUp ==
    Message("a", 2, LegacyPart("a", "L4", <<TopUpRow>>, <<>>, <<>>, <<1000>>), NoCurrent)

\* 0.45 * 0.10 / 3.00 is exactly a cent and a half, and 0.10 / 3.00 is not a
\* finite decimal.
LegacyHalfCent ==
    Message("a", 1,
            LegacyPart("a", "L5",
                       <<[title |-> "Card", duration |-> "", renewal |-> "", price |-> 450],
                         [title |-> "Film", duration |-> "", renewal |-> "", price |-> 2450]>>,
                       <<2900>>, <<100>>, <<3000>>),
            NoCurrent)

LegacySubCent ==
    Message("a", 1, LegacyPart("a", "L3", <<BookRow>>, <<>>, <<>>, <<1000>>), NoCurrent)

\* Messages of both layouts, accepted and rejected on every path of process_email.
ExtractionPool ==
    {LegacyZeroTax, LegacyTaxed, CurrentTaxed, CurrentZeroTax, CurrentRenamed,
     BothMarkers, BothMarkersZeroTax, NeitherMarker, LegacyTopUp, LegacySubCent,
     LegacyHalfCent,
     [LegacyZeroTax EXCEPT !.fetch = FALSE],
     [LegacyZeroTax EXCEPT !.date = 0],
     [LegacyZeroTax EXCEPT !.date = -1],
     [LegacyZeroTax EXCEPT !.to = <<>>],
     [LegacyZeroTax EXCEPT !.to = <<"">>],
     [LegacyZeroTax EXCEPT !.html = FALSE],
     [LegacyZeroTax EXCEPT !.legacy.order_id = [label |-> FALSE, tokens |-> <<>>]],
     [LegacyZeroTax EXCEPT !.legacy.apple_id = [label |-> TRUE, tokens |-> <<>>]],
     [LegacyZeroTax EXCEPT !.legacy.rows = <<[AppRow EXCEPT !.title = ""]>>],
     [LegacyZeroTax EXCEPT !.legacy.total = <<>>],
     [CurrentTaxed EXCEPT !.current.payment = FALSE],
     [CurrentTaxed EXCEPT !.current.order_id = <<>>]}

\* The messages that runs of several messages are made of: accepted ones of
\* both layouts, one dropped by the allocation, and rejected ones.
BatchPool ==
    {LegacyZeroTax, LegacyTaxed, CurrentTaxed, CurrentZeroTax, BothMarkers,
     NeitherMarker, LegacyTopUp, LegacySubCent,
     [LegacyZeroTax EXCEPT !.date = -1],
     [LegacyZeroTax EXCEPT !.html = FALSE]}

\* Accepted receipts that differ in the recipient only.
TallyPool ==
    {Message(to, 1, LegacyZeroTax.legacy, NoCurrent) : to \in {"a", "b", "c"}}

SeqsUpTo(S, n) == UNION {[1..m -> S] : m \in 0..n}

Mailboxes ==
    {<<d>> : d \in AllocationPool \cup ExtractionPool}
        \cup SeqsUpTo(BatchPool, MaxDocs)
        \cup SeqsUpTo(TallyPool, MaxTally)

\* ------------------------------------------------------------------ main

\* recipient_email_counter[address] += 1 on a Counter (a dict: a new key goes last).
CounterIncrement(counter, address) ==
    IF \E i \in 1..Len(counter) : counter[i].address = address
    THEN [i \in 1..Len(counter) |->
             IF counter[i].address = address
             THEN [address |-> address, count |-> counter[i].count + 1]
             ELSE counter[i]]
    ELSE Append(counter, [address |-> address, count |-> 1])

\* max(iterable, key=count): the first entry, in iteration order, that no
\* other entry exceeds.
RECURSIVE MaxByCount(_, _)
MaxByCount(best, rest) ==
    IF rest = <<>> THEN best
    ELSE MaxByCount(IF rest[1].count > best.count THEN rest[1] ELSE best, Tail(rest))

\* MostCommon with ">=" for ">": among equal counts the last entry wins.
RECURSIVE MaxByCountLast(_, _)
MaxByCountLast(best, rest) ==
    IF rest = <<>> THEN best
    ELSE MaxByCountLast(IF rest[1].count >= best.count THEN rest[1] ELSE best,
                        Tail(rest))

MostCommonLastWins(counter) == MaxByCountLast(counter[1], Tail(counter)).address

\* recipient_email_counter.most_common(1)[0][0]: heapq.nlargest(1, items, key)
\* is max(items, key) for n = 1.
MostCommon(counter) == MaxByCount(counter[1], Tail(counter)).address

\* AppendReceipt where a failed message appends the previous receipt again.
AppendReceiptOrStale(batch, returned) ==
    IF returned = <<>>
    THEN IF batch = <<>> THEN batch ELSE Append(batch, Last(batch))
    ELSE Append(batch, returned[1])

\* Lines 492-493: a returned receipt is appended, None leaves the list alone.
AppendReceipt(batch, returned) ==
    IF returned = <<>> THEN batch ELSE Append(batch, returned[1])

\* Lines 492-494 for the counter.
CountRecipient(counter, returned) ==
    IF returned = <<>> THEN counter
    ELSE CounterIncrement(counter, returned[1].recipient_email)

\* One pass of "for email_id in email_ids" (lines 490-494).
ProcessNext ==
    /\ pc = "loop"
    /\ idx <= Len(email_ids)
    /\ LET d == email_ids[idx]
           returned == ProcessEmail(d)
       IN  /\ all_receipt_data' = AppendReceipt(all_receipt_data, returned)
           /\ recipient_email_counter' = CountRecipient(recipient_email_counter, returned)
           /\ formats_logged' =
                  Append(formats_logged,
                         IF d.fetch /\ d.date > 0 /\ d.to # <<>> /\ d.html
                         THEN FormatLog(d) ELSE {})
    /\ idx' = idx + 1
    /\ UNCHANGED <<email_ids, pc, account_id, k, transactions, allocations,
                   total_receipts, total_items, output_file>>

\* Lines 496-507: after the loop, either generate_ofx_output is entered with
\* the most common recipient, or the run ends with "No recipient emails found".
FinishLoop ==
    /\ pc = "loop"
    /\ idx > Len(email_ids)
    /\ IF recipient_email_counter # <<>>
       THEN /\ account_id' = MostCommon(recipient_email_counter)
            /\ pc' = "ofx"
       ELSE /\ account_id' = account_id
            /\ pc' = "done"
    /\ UNCHANGED <<email_ids, idx, all_receipt_data, recipient_email_counter,
                   formats_logged, k, transactions, allocations, total_receipts,
                   total_items, output_file>>

\* ------------------------------------------------------------------ generate_ofx_output

\* The possible vectors of item_tax for a receipt (lines 395-400).
TaxVectors(receipt) ==
    LET items == receipt.receipt_items
        choice(i) == ItemTaxChoices(items[i].price, receipt.receipt_tax,
                                    receipt.receipt_total)
    IN  {t \in [1..Len(items) -> UNION {choice(i) : i \in 1..Len(items)}] :
            \A i \in 1..Len(items) : t[i] \in choice(i)}

\* Reconciled without the comparison of line 413: every receipt passes.
ReconciledUnchecked(amounts, receipt_total) == TRUE

\* Lines 411-415: the amounts add up to the receipt's total.
Reconciled(amounts, receipt_total) == SumSeq(amounts) = receipt_total

\* Lines 417-425.  "item" is the variable the loop at line 398 left behind:
\* the receipt's last item.
Memo(order_apple_id, acct, item) ==
    (IF order_apple_id # acct THEN << <<"Apple ID", order_apple_id>> >> ELSE <<>>)
        \o (IF item.duration # "" THEN << <<"Subscription", item.duration>> >> ELSE <<>>)

\* Lines 395-441 for one receipt and one outcome of the roundings.
\* "rounding_difference != 0" compares Money with an int and adding a zero
\* difference changes nothing, so the correction is applied as written.
Allocate(receipt, item_tax, acct) ==
    LET items == receipt.receipt_items
        n == Len(items)
        naive == [i \in 1..n |-> items[i].price + item_tax[i]]
        rounding_difference == Round2(receipt.receipt_total - SumSeq(naive))
        amounts == [naive EXCEPT ![n] = @ + rounding_difference]
        emitted == Reconciled(amounts, receipt.receipt_total)
        memo == Memo(receipt.receipt_apple_id, acct, items[n])
    IN  [receipt |-> receipt,
         item_tax |-> item_tax,
         naive |-> naive,
         rounding_difference |-> rounding_difference,
         amounts |-> amounts,
         emitted |-> emitted,
         txs |-> IF emitted
                 THEN [i \in 1..n |->
                          [type |-> IF amounts[i] < 0 THEN "CREDIT" ELSE "DEBIT",
                           date |-> receipt.date,
                           amount |-> -amounts[i],
                           fitid |-> <<receipt.receipt_order_id, i>>,
                           title |-> items[i].title,
                           memo |-> memo]]
                 ELSE <<>>]

\* One pass of "for receipt in receipt_data" (lines 382-442).
OfxReceipt ==
    /\ pc = "ofx"
    /\ k <= Len(all_receipt_data)
    /\ LET receipt == all_receipt_data[k]
       IN  IF receipt.receipt_items = <<>>
           THEN UNCHANGED <<transactions, allocations, total_receipts, total_items>>
           ELSE \E item_tax \in TaxVectors(receipt) :
                  LET a == Allocate(receipt, item_tax, account_id)
                  IN  /\ allocations' = Append(allocations, a)
                      /\ transactions' = transactions \o a.txs
                      /\ total_receipts' = total_receipts + (IF a.emitted THEN 1 ELSE 0)
                      /\ total_items' = total_items + Len(a.txs)
    /\ k' = k + 1
    /\ UNCHANGED <<email_ids, idx, all_receipt_data, recipient_email_counter,
                   formats_logged, pc, account_id, output_file>>

RECURSIVE MaxDate(_)
MaxDate(batch) ==
    IF Len(batch) = 1 THEN batch[1].date
    ELSE LET m == MaxDate(Tail(batch))
         IN  IF batch[1].date > m THEN batch[1].date ELSE m

\* Lines 444-455: the file is written with whatever transactions there are.
OfxWrite ==
    /\ pc = "ofx"
    /\ k > Len(all_receipt_data)
    /\ output_file' = Append(output_file,
                             [datetime |-> MaxDate(all_receipt_data),
                              account_id |-> account_id,
                              transactions |-> transactions])
    /\ pc' = "done"
    /\ UNCHANGED <<email_ids, idx, all_receipt_data, recipient_email_counter,
                   formats_logged, account_id, k, transactions, allocations,
                   total_receipts, total_items>>

\* main up to the loop: the fetched messages, an empty list and an empty Counter.
Init ==
    /\ email_ids \in Mailboxes
    /\ idx = 1
    /\ all_receipt_data = <<>>
    /\ recipient_email_counter = <<>>
    /\ formats_logged = <<>>
    /\ pc = "loop"
    /\ account_id = ""
    /\ k = 1
    /\ transactions = <<>>
    /\ allocations = <<>>
    /\ total_receipts = 0
    /\ total_items = 0
    /\ output_file = <<>>

Next == ProcessNext \/ FinishLoop \/ OfxReceipt \/ OfxWrite

Spec == Init /\ [][Next]_vars

\* ------------------------------------------------------------------ properties

\* The transactions of the allocations so far, in order.
RECURSIVE Emitted(_)
Emitted(allocs) == IF allocs = <<>> THEN <<>> ELSE allocs[1].txs \o Emitted(Tail(allocs))

\* price + allocated tax per item, the residual added to the last item.
FinalAmounts(a) ==
    LET items == a.receipt.receipt_items
        n == Len(items)
        before == [i \in 1..n |-> items[i].price + a.item_tax[i]]
        residual == Round2(a.receipt.receipt_total - SumSeq(before))
    IN  [i \in 1..n |-> before[i] + (IF i = n THEN residual ELSE 0)]

\* C1: for every receipt whose items are emitted as transactions, the final
\* amounts (price + allocated tax, residual on the last item) are the amounts
\* of its transactions and add up to the receipt's total exactly; a receipt
\* whose final amounts do not add up to its total contributes no transaction,
\* neither to the list being built nor to a written file.
ReconciliationInvariant ==
    /\ \A j \in 1..Len(allocations) :
          LET a == allocations[j]
              final == FinalAmounts(a)
          IN  IF SumSeq(final) = a.receipt.receipt_total
              THEN a.txs # <<>> =>
                      /\ Len(a.txs) = Len(final)
                      /\ \A i \in 1..Len(final) : -a.txs[i].amount = final[i]
              ELSE a.txs = <<>>
    /\ transactions = Emitted(allocations)
    /\ \A w \in 1..Len(output_file) : output_file[w].transactions = Emitted(allocations)

\* A run that wrote the file after emitting a receipt that needed a residual
\* and dropping another whose amounts did not add up.
ReconciliationWitness ==
    /\ pc = "done"
    /\ output_file # <<>>
    /\ \E j \in 1..Len(allocations) :
          allocations[j].txs # <<>> /\ allocations[j].rounding_difference # 0
    /\ \E j \in 1..Len(allocations) :
          /\ allocations[j].txs = <<>>
          /\ SumSeq(FinalAmounts(allocations[j])) # allocations[j].receipt.receipt_total

\* C2: every item whose title starts with "Money added to" has a price <= 0
\* in the receipt process_email returns, and the transaction emitted for it
\* has type CREDIT, also in receipts that mix it with purchased items.
SignConvention ==
    /\ \A j \in 1..Len(all_receipt_data) :
          \A i \in 1..Len(all_receipt_data[j].receipt_items) :
              LET item == all_receipt_data[j].receipt_items[i]
              IN  StartsWithMoneyAddedTo(item.title) => item.price <= 0
    /\ \A j \in 1..Len(allocations) :
          \A i \in 1..Len(allocations[j].txs) :
              StartsWithMoneyAddedTo(allocations[j].txs[i].title)
                  => allocations[j].txs[i].type = "CREDIT"

\* C3, for the receipts it names in particular (N items, non-zero tax, item
\* prices plus tax equal to the total): the naive amounts
\* price + round(price * taxRatio, 2) add up to within 0.01 * (N - 1) of the
\* total before the correction, and the amounts add up to the total exactly
\* after the residual went to the last item.
RoundingConservation ==
    \A j \in 1..Len(allocations) :
        LET a == allocations[j]
        IN  (/\ a.receipt.receipt_tax # 0
             /\ SumPrices(a.receipt.receipt_items) + a.receipt.receipt_tax
                    = a.receipt.receipt_total)
            => /\ Abs(a.receipt.receipt_total - SumSeq(a.naive))
                      <= 10 * (Len(a.receipt.receipt_items) - 1)
               /\ SumSeq(a.amounts) = a.receipt.receipt_total

\* The prices of a receipt's items, in order.
Prices(receipt) ==
    [i \in 1..Len(receipt.receipt_items) |-> receipt.receipt_items[i].price]

\* C4: a receipt with items priced 5.00 and 3.00, tax 0.56 and total 8.56 is
\* allocated taxes 0.35 and 0.21, needs no residual, ends with amounts 5.35
\* and 3.21, and both items are emitted as DEBIT.
WorkedExample ==
    \A j \in 1..Len(allocations) :
        LET a == allocations[j]
        IN  (/\ Prices(a.receipt) = <<5000, 3000>>
             /\ a.receipt.receipt_tax = 560
             /\ a.receipt.receipt_total = 8560)
            => /\ a.item_tax = <<350, 210>>
               /\ a.rounding_difference = 0
               /\ a.amounts = <<5350, 3210>>
               /\ Len(a.txs) = 2
               /\ \A i \in 1..2 : a.txs[i].type = "DEBIT"

\* C5: the memo of every emitted transaction has the entry "Apple ID: <id>"
\* exactly when the receipt's Apple ID differs from the account id, and the
\* entry "Subscription: <duration>" exactly when the item the transaction
\* stands for has a duration, with that item's own duration.
PerItemMemo ==
    \A j \in 1..Len(allocations) :
        LET a == allocations[j]
        IN  \A i \in 1..Len(a.txs) :
               LET item == a.receipt.receipt_items[i]
                   memo == a.txs[i].memo
                   entries == {memo[m] : m \in 1..Len(memo)}
               IN  /\ (<<"Apple ID", a.receipt.receipt_apple_id>> \in entries)
                          <=> (a.receipt.receipt_apple_id # account_id)
                   /\ (\E e \in entries : e[1] = "Subscription")
                          <=> (item.duration # "")
                   /\ \A e \in entries :
                          e[1] = "Subscription" => e[2] = item.duration

\* The "Processing ... format email" lines among a message's log lines.
ExtractorsRun(lines) == lines \ {"No recognized email format found"}

\* C6: for every message at most one layout's extraction runs; a message with
\* the legacy marker yields what its legacy part alone yields, a message with
\* the current marker what its current part alone yields (with both markers:
\* one of the two), and a message with neither marker is reported as
\* unrecognized and returns no receipt.
FormatDispatchExclusive ==
    \A i \in 1..Len(formats_logged) :
        LET d == email_ids[i]
            legacy_only == [d EXCEPT !.current = NoCurrent]
            current_only == [d EXCEPT !.legacy = NoLegacy]
        IN  (d.fetch /\ d.date > 0 /\ d.to # <<>> /\ d.html) =>
               /\ Cardinality(ExtractorsRun(formats_logged[i])) <= 1
               /\ (d.legacy.present /\ ~d.current.present)
                      => ProcessEmail(d) = ProcessEmail(legacy_only)
               /\ (d.current.present /\ ~d.legacy.present)
                      => ProcessEmail(d) = ProcessEmail(current_only)
               /\ (d.legacy.present /\ d.current.present)
                      => ProcessEmail(d) \in {ProcessEmail(legacy_only),
                                              ProcessEmail(current_only)}
               /\ (~d.legacy.present /\ ~d.current.present)
                      => /\ "No recognized email format found" \in formats_logged[i]
                         /\ ProcessEmail(d) = <<>>

\* C7: a run in which no receipt survived extraction, validation and the
\* allocation's reconciliation never writes the output file; the file is
\* written at most once, and only after every message was processed.
EmptyBatchWritesNothing ==
    /\ (pc = "done" /\ \A j \in 1..Len(allocations) : ~allocations[j].emitted)
           => output_file = <<>>
    /\ Len(output_file) <= 1
    /\ output_file # <<>> => idx > Len(email_ids)

\* The recipient addresses of the accepted receipts, in processing order.
Recipients == [j \in 1..Len(all_receipt_data) |-> all_receipt_data[j].recipient_email]

Occurrences(address) ==
    Cardinality({j \in 1..Len(Recipients) : Recipients[j] = address})

FirstOccurrence(address) ==
    CHOOSE j \in 1..Len(Recipients) :
        /\ Recipients[j] = address
        /\ \A h \in 1..(j - 1) : Recipients[h] # address

\* C8: the account id generate_ofx_output is called with is the recipient
\* address of most accepted receipts, among equally frequent addresses the one
\* whose first receipt came earliest; that one value is compared with the
\* Apple ID in every memo and written as the file's ACCTID; addresses
\* [a,a,b,a,c] give a.
AccountSelection ==
    pc \in {"ofx", "done"} /\ all_receipt_data # <<>> =>
        /\ \E j \in 1..Len(Recipients) : Recipients[j] = account_id
        /\ \A j \in 1..Len(Recipients) :
              \/ Occurrences(Recipients[j]) < Occurrences(account_id)
              \/ /\ Occurrences(Recipients[j]) = Occurrences(account_id)
                 /\ FirstOccurrence(account_id) <= FirstOccurrence(Recipients[j])
        /\ Recipients = <<"a", "a", "b", "a", "c">> => account_id = "a"
        /\ \A w \in 1..Len(output_file) : output_file[w].account_id = account_id
        /\ \A j \in 1..Len(allocations) :
              \A i \in 1..Len(allocations[j].txs) :
                  (\E m \in 1..Len(allocations[j].txs[i].memo) :
                       allocations[j].txs[i].memo[m][1] = "Apple ID")
                      <=> (allocations[j].receipt.receipt_apple_id # account_id)

\* A finished run whose two most frequent recipients are equally frequent and
\* the later of the two was counted last.
AccountSelectionWitness ==
    /\ pc = "done"
    /\ output_file # <<>>
    /\ Recipients = <<"b", "c", "a", "a", "b">>
    /\ account_id = "b"

\* A message of one layout with a date, a recipient, both identifiers, at
\* least one item, a printed total, and neither a subtotal nor a tax line.
ZeroTaxForm(d) ==
    /\ d.fetch /\ d.date > 0 /\ d.to # <<>> /\ d.to # <<"">> /\ d.html
    /\ \/ /\ d.legacy.present /\ ~d.current.present
          /\ d.legacy.apple_id.label /\ d.legacy.apple_id.tokens # <<>>
          /\ d.legacy.order_id.label /\ d.legacy.order_id.tokens # <<>>
          /\ d.legacy.rows # <<>>
          /\ \A i \in 1..Len(d.legacy.rows) :
                d.legacy.rows[i].title # "" /\ d.legacy.rows[i].price > 0
          /\ d.legacy.subtotal = <<>> /\ d.legacy.tax = <<>>
          /\ d.legacy.total # <<>> /\ d.legacy.total # <<0>>
       \/ /\ d.current.present /\ ~d.legacy.present
          /\ d.current.order_id \notin {<<>>, <<"">>}
          /\ d.current.apple_id \notin {<<>>, <<"">>}
          /\ d.current.table /\ d.current.rows # <<>>
          /\ \A i \in 1..Len(d.current.rows) :
                /\ d.current.rows[i].cells >= 3 /\ d.current.rows[i].paragraphs >= 3
                /\ d.current.rows[i].title # "" /\ d.current.rows[i].price > 0
          /\ d.current.payment
          /\ d.current.subtotal = <<>> /\ d.current.tax = <<>>
          /\ d.current.total # <<>> /\ d.current.total # <<0>>

\* The receipts process_email returns for messages, one after the other.
RECURSIVE AcceptedAlone(_)
AcceptedAlone(docs) ==
    IF docs = <<>> THEN <<>> ELSE ProcessEmail(docs[1]) \o AcceptedAlone(Tail(docs))

\* C9: in either layout a message in the zero-tax form (items, identifiers and
\* a total, no subtotal line, no tax line) is accepted into the batch, with
\* tax zero and subtotal the sum of the item prices.
MissingSummaryNotFatal ==
    \A i \in 1..(idx - 1) :
        ZeroTaxForm(email_ids[i]) =>
            \E j \in 1..Len(all_receipt_data) :
                LET r == all_receipt_data[j]
                IN  /\ j = Len(AcceptedAlone(SubSeq(email_ids, 1, i)))
                    /\ r.receipt_tax = 0
                    /\ r.subtotal = SumPrices(r.receipt_items)
                    /\ r.date = email_ids[i].date

\* C10: whatever fails in one message, the loop goes on to the last message,
\* and the batch is the receipts of the messages that are accepted when
\* processed alone, in processing order; that batch is what the synthesis works through.
FailureIsolation ==
    /\ all_receipt_data = AcceptedAlone(SubSeq(email_ids, 1, idx - 1))
    /\ pc # "loop" => idx = Len(email_ids) + 1
    /\ \A j \in 1..Len(allocations) : allocations[j].receipt = all_receipt_data[j]
    /\ pc = "done" /\ all_receipt_data # <<>> => Len(allocations) = Len(all_receipt_data)

\* A finished run of three messages: the second raised in process_email (its
\* Date header matches neither format), the first and the third were accepted
\* and are the batch that was written.
FailureIsolationWitness ==
    /\ pc = "done"
    /\ Len(email_ids) = 3
    /\ email_ids[2].date < 0
    /\ ProcessEmail(email_ids[1]) # <<>>
    /\ ProcessEmail(email_ids[3]) # <<>>
    /\ all_receipt_data = ProcessEmail(email_ids[1]) \o ProcessEmail(email_ids[3])
    /\ Len(output_file) = 1

\* The item rows before the first one whose title span is missing: the rows
\* the loop at line 138 stores before item_details['title'] raises.
RECURSIVE RowsBeforeRaise(_)
RowsBeforeRaise(rows) ==
    IF rows = <<>> \/ rows[1].title = "" THEN <<>>
    ELSE <<rows[1]>> \o RowsBeforeRaise(Tail(rows))

\* The locals after the legacy branch, whether it ran to line 183 or raised
\* on the way: each assignment before the raise has taken place.
LegacyLocals(f, L) ==
    IF ExtractIdRaises(L.apple_id) THEN [f EXCEPT !.raised = TRUE]
    ELSE LET f1 == [f EXCEPT !.apple_id = ExtractId(L.apple_id)]
         IN  IF ExtractIdRaises(L.order_id) THEN [f1 EXCEPT !.raised = TRUE]
             ELSE LET f2 == [f1 EXCEPT !.order_id = ExtractId(L.order_id)]
                  IN  IF LegacyItemsRaise(L.rows)
                      THEN [f2 EXCEPT !.raised = TRUE,
                                      !.items = LegacyItems(f.items, RowsBeforeRaise(L.rows))]
                      ELSE ExtractLegacy(f, L)

\* The locals after the current-layout branch, likewise (lines 213-269 in order).
CurrentLocals(f, C) ==
    IF ExtractInfoRaises(C.order_id) THEN [f EXCEPT !.raised = TRUE]
    ELSE LET f1 == [f EXCEPT !.order_id = ExtractInfo(C.order_id)]
         IN  IF ExtractInfoRaises(C.apple_id) THEN [f1 EXCEPT !.raised = TRUE]
             ELSE LET f2 == [f1 EXCEPT !.apple_id = ExtractInfo(C.apple_id),
                                       !.items = IF C.table THEN CurrentItems(f.items, C.rows)
                                                 ELSE f.items]
                  IN  IF ~C.payment THEN f2
                      ELSE IF PaymentAmountRaises(C.subtotal) THEN [f2 EXCEPT !.raised = TRUE]
                      ELSE IF PaymentAmountRaises(C.tax)
                           THEN [f2 EXCEPT !.raised = TRUE, !.subtotal = C.subtotal[1]]
                      ELSE ExtractCurrent(f, C)

\* The values process_email holds when it stops extracting, by reaching line
\* 288 or by raising.  Before line 98 none of them exists.
LocalsAtEnd(d) ==
    IF ~(d.fetch /\ d.date > 0 /\ d.to # <<>> /\ d.html) THEN EmptyFields
    ELSE LET f1 == IF d.legacy.present THEN LegacyLocals(EmptyFields, d.legacy)
                   ELSE EmptyFields
         IN  IF f1.raised \/ ~d.current.present THEN f1
             ELSE CurrentLocals(f1, d.current)

\* Order id, Apple ID, at least one item, a non-zero total, the date and the
\* recipient address are all there.
AllPresent(d) ==
    LET f == LocalsAtEnd(d)
    IN  /\ f.order_id # "" /\ f.apple_id # "" /\ f.items # <<>> /\ f.total # 0
        /\ d.fetch /\ d.date > 0 /\ d.to \notin {<<>>, <<"">>}

\* C11: process_email returns a receipt exactly for the messages whose order
\* id, Apple ID, items, non-zero total, date and recipient are all present, a
\* mismatch of the recomputed subtotal or total with the printed one
\* notwithstanding; every receipt of the batch, and so every receipt the
\* allocation divides by, has a non-zero total.
AcceptanceGating ==
    /\ \A i \in 1..(idx - 1) :
          (ProcessEmail(email_ids[i]) # <<>>) <=> AllPresent(email_ids[i])
    /\ \A j \in 1..Len(all_receipt_data) : all_receipt_data[j].receipt_total # 0
    /\ \A j \in 1..Len(allocations) : allocations[j].receipt.receipt_total # 0

\* The receipt's item prices and its total are whole-cent amounts.
WholeCent(receipt) ==
    /\ receipt.receipt_total % 10 = 0
    /\ \A i \in 1..Len(receipt.receipt_items) : receipt.receipt_items[i].price % 10 = 0

\* C12: a receipt whose item prices and total are whole-cent amounts (its
\* total is non-zero) is never dropped by the reconciliation check: the
\* residual total - sum(price + allocated tax) goes unrounded and in full to
\* the last item, whatever its size, the other amounts stay as they were, the
\* amounts add up to the total, every item becomes a transaction, and the
\* transactions are in the written file.
WholeCentNeverDropped ==
    \A j \in 1..Len(allocations) :
        LET a == allocations[j]
            n == Len(a.receipt.receipt_items)
            residual == a.receipt.receipt_total - SumSeq(a.naive)
        IN  (WholeCent(a.receipt) /\ a.receipt.receipt_total # 0)
            => /\ a.emitted
               /\ a.rounding_difference = residual
               /\ \A i \in 1..n :
                     /\ a.naive[i] = a.receipt.receipt_items[i].price + a.item_tax[i]
                     /\ a.amounts[i] = a.naive[i] + (IF i = n THEN residual ELSE 0)
               /\ SumSeq(a.amounts) = a.receipt.receipt_total
               /\ Len(a.txs) = n
               /\ \A i \in 1..n : a.txs[i].amount = -a.amounts[i]
               /\ \E t \in 0..(Len(transactions) - n) :
                     /\ \A i \in 1..n : transactions[t + i] = a.txs[i]
                     /\ \A w \in 1..Len(output_file) :
                           \A i \in 1..n : output_file[w].transactions[t + i] = a.txs[i]

\* A finished run on a message whose second item row repeated the first row's
\* title and overwrote it: the receipt's one item is a whole-cent amount, its
\* price plus tax is dollars short of the printed total, and the written
\* transaction carries the whole difference.
WholeCentDiscrepancyWritten ==
    /\ pc = "done"
    /\ Len(email_ids) = 1
    /\ Len(email_ids[1].legacy.rows) = 2
    /\ Len(allocations) = 1
    /\ LET a == allocations[1]
       IN  /\ Len(a.receipt.receipt_items) = 1
           /\ WholeCent(a.receipt)
           /\ Abs(a.receipt.receipt_total - SumSeq(a.naive)) >= 1000
           /\ Len(output_file) = 1
           /\ Len(output_file[1].transactions) = 1
           /\ output_file[1].transactions[1].amount = -a.receipt.receipt_total

====
